---- MODULE Spec2Model ----
(***************************************************************************)
(* Model of gcp-enumerator (src/main.py).                                  *)
(*                                                                         *)
(* The program is a sequential script.  Every function of main.py is an    *)
(* operator from the responses of the remote services to what the function *)
(* prints (out), the exception that escapes it (exc, "" when it returns)   *)
(* and its return value (val).  main() is a state machine over these.      *)
(*                                                                         *)
(* Python values:                                                          *)
(*   dict          a record / function with string domain (key k absent    *)
(*                 iff k \notin DOMAIN d)                                  *)
(*   list          a sequence                                              *)
(*   None / x      <<>> / <<x>> for the optional results of list_*         *)
(*   "a/b/c"       a string that the code splits at '/' is kept as the     *)
(*                 sequence of its segments <<"a","b","c">>                *)
(***************************************************************************)
EXTENDS Integers, Sequences, FiniteSets, TLC

VARIABLES
    pc,            \* position of main(), or of the function under call
    access_token,  \* main: access_token (line 224), "" before it is set
    projects,      \* main: projects (line 227)
    idx,           \* main: index of the project of the for loop (line 229)
    output,        \* standard output: the lines printed so far
    calls,         \* the calls main() has made, in order
    exc,           \* the exception that ended the run, "" if none
    fn,            \* the function last called
    arg,           \* what the remote services answered to that call
    ret            \* the result of that call: [out, exc, val]

vars == <<pc, access_token, projects, idx, output, calls, exc, fn, arg, ret>>

(***************************************************************************)
(* Bounds of the model.                                                    *)
(***************************************************************************)
MaxPages == 2       \* pages of a paginated listing
MaxItems == 2       \* entries of one page, of one listing
MaxIps == 3         \* entries of the ipAddresses of an SQL instance
MaxNics == 2        \* entries of networkInterfaces / accessConfigs
MaxProjects == 2    \* projects of a run of main()
MaxResources == 1   \* resources of a project in a compute report

(***************************************************************************)
(* Generic helpers.                                                        *)
(***************************************************************************)
SeqsUpTo(S, n) == UNION {[1..k -> S] : k \in 0..n}

Empty == [k \in {} |-> k]          \* the dict {}

None == <<>>
Some(x) == <<x>>

Res(o, e, v) == [out |-> o, exc |-> e, val |-> v]
NoRes == Res(<<>>, "", <<>>)

\* Statements run one after the other: what each printed, up to and
\* including the first that raises, and that exception.
RECURSIVE Sequentially(_)
Sequentially(rs) ==
    IF rs = <<>> THEN Res(<<>>, "", <<>>)
    ELSE IF Head(rs).exc # "" THEN Res(Head(rs).out, Head(rs).exc, <<>>)
    ELSE LET rest == Sequentially(Tail(rs))
         IN  Res(Head(rs).out \o rest.out, rest.exc, <<>>)

\* ",".join(fields)
RECURSIVE Join(_, _)
Join(fields, sep) ==
    IF fields = <<>> THEN ""
    ELSE IF Len(fields) = 1 THEN fields[1]
    ELSE fields[1] \o sep \o Join(Tail(fields), sep)

\* print(",".join([...])) of fields that were all present
EmitRow(fields) == Res(<<Join(fields, ",")>>, "", <<>>)
Emit(line) == Res(<<line>>, "", <<>>)
Raise(e) == Res(<<>>, e, <<>>)

\* s.split('/')[-1] of a string kept as its segments
LastSegment(path) == path[Len(path)]

\* ('|'.join(users)).split('/') : the segments of the users joined by '|'
RECURSIVE BarJoinSplit(_)
BarJoinSplit(users) ==
    IF users = <<>> THEN <<"">>
    ELSE IF Len(users) = 1 THEN users[1]
    ELSE LET a == users[1]
             r == BarJoinSplit(Tail(users))
         IN  SubSeq(a, 1, Len(a) - 1) \o <<a[Len(a)] \o "|" \o r[1]>> \o Tail(r)

(***************************************************************************)
(* Python's ordering of str: by code point, a proper prefix first.         *)
(***************************************************************************)
Names == {"eu", "us", "us2"}
CodePoints == [eu |-> <<101, 117>>, us |-> <<117, 115>>, us2 |-> <<117, 115, 50>>]

RECURSIVE LexLess(_, _)
LexLess(a, b) ==
    IF b = <<>> THEN FALSE
    ELSE IF a = <<>> THEN TRUE
    ELSE IF a[1] # b[1] THEN a[1] < b[1]
    ELSE LexLess(Tail(a), Tail(b))

StrLess(a, b) == LexLess(CodePoints[a], CodePoints[b])

\* list.sort(): ascending, stable
RECURSIVE InsertSorted(_, _)
InsertSorted(x, s) ==
    IF s = <<>> THEN <<x>>
    ELSE IF StrLess(x, Head(s)) THEN <<x>> \o s
    ELSE <<Head(s)>> \o InsertSorted(x, Tail(s))

RECURSIVE Sort(_)
Sort(s) ==
    IF s = <<>> THEN <<>>
    ELSE InsertSorted(s[Len(s)], Sort(SubSeq(s, 1, Len(s) - 1)))

(***************************************************************************)
(* Paginated listings of googleapiclient.  A listing is the sequence of    *)
(* its pages; a request is the index of the page it fetches, 0 for None.   *)
(* list_next gives the next request iff the response has a nextPageToken.  *)
(***************************************************************************)
NoRequest == 0

list_next(request, response) ==
    IF "nextPageToken" \in DOMAIN response THEN request + 1 ELSE NoRequest

\* The pages of a listing: all but the last carry a nextPageToken.
WithTokens(bodies) ==
    [k \in 1..Len(bodies) |->
        IF k < Len(bodies) THEN bodies[k] @@ [nextPageToken |-> "t"]
        ELSE bodies[k]]

Listings(bodies, maxPages) ==
    {WithTokens(bs) : bs \in (SeqsUpTo(bodies, maxPages) \ {<<>>})}

(***************************************************************************)
(* get_projects (lines 15-26).  val is the list returned; executes counts  *)
(* the request.execute() calls.                                            *)
(***************************************************************************)
ProjectIds == {"p1", "p2"}
Project(id) == [projectId |-> id]

\* response.get('projects', [])
GetProjectsOf(response) ==
    IF "projects" \in DOMAIN response THEN response.projects ELSE <<>>

\* get_projects with `projects = response.get(...)` for projects.extend(...)
RECURSIVE get_projects_loop_assign(_, _, _, _)
get_projects_loop_assign(pages, request, acc, executes) ==
    IF request = NoRequest THEN [val |-> acc, executes |-> executes]
    ELSE LET response == pages[request]
         IN  get_projects_loop_assign(pages, list_next(request, response),
                                      GetProjectsOf(response), executes + 1)

RECURSIVE get_projects_loop(_, _, _, _)
get_projects_loop(pages, request, acc, executes) ==
    IF request = NoRequest THEN [val |-> acc, executes |-> executes]
    ELSE LET response == pages[request]
         IN  get_projects_loop(pages, list_next(request, response),
                               acc \o GetProjectsOf(response), executes + 1)

get_projects(pages) == get_projects_loop(pages, 1, <<>>, 0)

(***************************************************************************)
(* get_zones (lines 29-39) and get_regions (lines 42-52).                  *)
(***************************************************************************)
\* for zone in response['items']: zones.append(zone["name"])
RECURSIVE get_zones_loop(_, _, _)
get_zones_loop(pages, request, zones) ==
    IF request = NoRequest THEN Res(<<>>, "", zones)
    ELSE LET response == pages[request]
         IN  IF "items" \notin DOMAIN response THEN Raise("KeyError")
             ELSE get_zones_loop(pages, list_next(request, response),
                     zones \o [k \in 1..Len(response.items) |-> response.items[k].name])

\* get_zones without zones.sort()
ZonesUnsorted(zones) == zones

ZonesSort(zones) == Sort(zones)

get_zones(pages) ==
    LET r == get_zones_loop(pages, 1, <<>>)
    IN  IF r.exc # "" THEN r ELSE Res(<<>>, "", ZonesSort(r.val))

RECURSIVE get_regions_loop(_, _, _)
get_regions_loop(pages, request, regions) ==
    IF request = NoRequest THEN Res(<<>>, "", regions)
    ELSE LET response == pages[request]
         IN  IF "items" \notin DOMAIN response THEN Raise("KeyError")
             ELSE get_regions_loop(pages, list_next(request, response),
                     regions \o [k \in 1..Len(response.items) |-> response.items[k].name])

RegionsSort(regions) == Sort(regions)

get_regions(pages) ==
    LET r == get_regions_loop(pages, 1, <<>>)
    IN  IF r.exc # "" THEN r ELSE Res(<<>>, "", RegionsSort(r.val))

(***************************************************************************)
(* list_instances, list_disks, list_addresses, list_sql_instances          *)
(* (lines 56-69, 129-131): result['items'] if 'items' in result else None  *)
(***************************************************************************)
ItemsOrNone(result) ==
    IF "items" \in DOMAIN result THEN Some(result.items) ELSE None

list_instances(result) == ItemsOrNone(result)
list_disks(result) == ItemsOrNone(result)
list_addresses(result) == ItemsOrNone(result)
list_sql_instances(result) == ItemsOrNone(result)

\* `if items:` of an optional list
Truthy(items) == items # None /\ items[1] # <<>>

(***************************************************************************)
(* get_external_ip (lines 72-76): only KeyError is caught.                 *)
(***************************************************************************)
\* instance["networkInterfaces"][0]["accessConfigs"][0]["natIP"]
NatIpPath(instance) ==
    IF "networkInterfaces" \notin DOMAIN instance THEN Raise("KeyError")
    ELSE IF instance.networkInterfaces = <<>> THEN Raise("IndexError")
    ELSE LET nic == instance.networkInterfaces[1]
         IN  IF "accessConfigs" \notin DOMAIN nic THEN Raise("KeyError")
             ELSE IF nic.accessConfigs = <<>> THEN Raise("IndexError")
             ELSE IF "natIP" \notin DOMAIN nic.accessConfigs[1] THEN Raise("KeyError")
             ELSE Res(<<>>, "", nic.accessConfigs[1].natIP)

get_external_ip(instance) ==
    LET r == NatIpPath(instance)
    IN  IF r.exc = "KeyError" THEN Res(<<>>, "", "none") ELSE r

(***************************************************************************)
(* compute_instance_report (lines 79-126).  env is what the compute API    *)
(* answers for the project: the zone and region listings (pages) and the   *)
(* instances, disks and addresses of the project; instances().list of a    *)
(* zone answers with the instances of that zone, without 'items' if there  *)
(* are none.                                                               *)
(***************************************************************************)
InZone(population, zone) ==
    LET found == SelectSeq(population, LAMBDA r : LastSegment(r.zone) = zone)
    IN  IF found = <<>> THEN [kind |-> "list"]
        ELSE [kind |-> "list", items |-> found]

InRegion(population, region) ==
    LET found == SelectSeq(population, LAMBDA r : LastSegment(r.region) = region)
    IN  IF found = <<>> THEN [kind |-> "list"]
        ELSE [kind |-> "list", items |-> found]

\* item["networkInterfaces"][0]["networkIP"] (line 94)
NetworkIp(item) ==
    IF "networkInterfaces" \notin DOMAIN item THEN Raise("KeyError")
    ELSE IF item.networkInterfaces = <<>> THEN Raise("IndexError")
    ELSE IF "networkIP" \notin DOMAIN item.networkInterfaces[1] THEN Raise("KeyError")
    ELSE Res(<<>>, "", item.networkInterfaces[1].networkIP)

\* lines 89-96
instance_row(item) ==
    LET ip == NetworkIp(item)
        ext == get_external_ip(item)
    IN  IF ip.exc # "" THEN Raise(ip.exc)
        ELSE IF ext.exc # "" THEN Raise(ext.exc)
        ELSE EmitRow(<<LastSegment(item.zone), item.name, item.status,
                       LastSegment(item.machineType), ip.val, ext.val>>)

\* lines 104-110
disk_row(item) ==
    IF "users" \notin DOMAIN item THEN Raise("KeyError")
    ELSE EmitRow(<<LastSegment(item.zone), item.name, item.status, item.sizeGb,
                   LastSegment(BarJoinSplit(item.users))>>)

\* lines 118-126
address_row(item) ==
    IF "users" \notin DOMAIN item THEN Raise("KeyError")
    ELSE EmitRow(<<LastSegment(item.region), item.name, item.status, item.address,
                   item.networkTier, item.addressType,
                   LastSegment(BarJoinSplit(item.users))>>)

\* lines 85-96
instances_section(env) ==
    LET zones == get_zones(env.zones)
    IN  IF zones.exc # "" THEN Raise(zones.exc)
        ELSE Sequentially([z \in 1..Len(zones.val) |->
                LET items == list_instances(InZone(env.instances, zones.val[z]))
                IN  IF Truthy(items)
                    THEN Sequentially([k \in 1..Len(items[1]) |-> instance_row(items[1][k])])
                    ELSE NoRes])

\* lines 100-110
disks_section(env) ==
    LET zones == get_zones(env.zones)
    IN  IF zones.exc # "" THEN Raise(zones.exc)
        ELSE Sequentially([z \in 1..Len(zones.val) |->
                LET items == list_disks(InZone(env.disks, zones.val[z]))
                IN  IF Truthy(items)
                    THEN Sequentially([k \in 1..Len(items[1]) |-> disk_row(items[1][k])])
                    ELSE NoRes])

\* lines 114-126
addresses_section(env) ==
    LET regions == get_regions(env.regions)
    IN  IF regions.exc # "" THEN Raise(regions.exc)
        ELSE Sequentially([z \in 1..Len(regions.val) |->
                LET addresses == list_addresses(InRegion(env.addresses, regions.val[z]))
                IN  IF Truthy(addresses)
                    THEN Sequentially([k \in 1..Len(addresses[1]) |-> address_row(addresses[1][k])])
                    ELSE NoRes])

compute_instance_report(env) ==
    Sequentially(<<Emit("==== Compute Engine ===="),
                   Emit("-- Instances --"), instances_section(env),
                   Emit("-- Disks --"), disks_section(env),
                   Emit("-- Addresses --"), addresses_section(env)>>)

(***************************************************************************)
(* sql_instance_report (lines 134-151).  result is the answer of           *)
(* sql.instances().list(project).execute().                                *)
(***************************************************************************)
\* sql_row with the two addresses in the other order
sql_row_swapped(item) ==
    IF Len(item.ipAddresses) < 2 THEN Raise("IndexError")
    ELSE EmitRow(<<item.region, item.gceZone, item.name, item.state,
                   item.databaseVersion, item.settings.tier,
                   item.settings.availabilityType,
                   item.ipAddresses[2].ipAddress, item.ipAddresses[1].ipAddress>>)

\* lines 141-151: the fields are evaluated in order, then the row is printed
sql_row(item) ==
    IF Len(item.ipAddresses) < 2 THEN Raise("IndexError")
    ELSE EmitRow(<<item.region, item.gceZone, item.name, item.state,
                   item.databaseVersion, item.settings.tier,
                   item.settings.availabilityType,
                   item.ipAddresses[1].ipAddress, item.ipAddresses[2].ipAddress>>)

\* line 140: `for item in items` with items = None raises TypeError
sql_rows(items) ==
    IF items = None THEN Raise("TypeError")
    ELSE Sequentially([k \in 1..Len(items[1]) |-> sql_row(items[1][k])])

sql_instance_report(result) ==
    Sequentially(<<Emit("==== SQL Engine ===="),
                   sql_rows(list_sql_instances(result))>>)

(***************************************************************************)
(* list_redis_instances (lines 154-159), redis_instance_report (165-181).  *)
(* service is how CloudRedisClient.list_instances behaves: it raises       *)
(* (raises), or returns a pager that yields items and then either ends or  *)
(* raises while it fetches a further page (iterRaises).                    *)
(***************************************************************************)
list_redis_instances(service) ==
    IF service.raises THEN None
    ELSE Some([items |-> service.items, iterRaises |-> service.iterRaises])

\* str(item.state), str(item.tier): an enum member
StrEnum(e) == e.enum \o "." \o e.name

\* lines 173-181
redis_row(item) ==
    EmitRow(<<item.location_id, item.display_name, StrEnum(item.state),
              item.redis_version, item.host, StrEnum(item.tier),
              ToString(item.memory_size_gb)>>)

\* line 172: `for item in items` over the pager
redis_rows(pager) ==
    Sequentially([k \in 1..Len(pager.items) |-> redis_row(pager.items[k])]
                 \o (IF pager.iterRaises THEN <<Raise("GoogleAPICallError")>> ELSE <<>>))

\* line 171: a pager is truthy, None is not
redis_instance_report(service) ==
    LET items == list_redis_instances(service)
    IN  Sequentially(<<Emit("==== Memorystore ===="),
                       IF items # None THEN redis_rows(items[1]) ELSE NoRes>>)

(***************************************************************************)
(* api_keys_report (lines 202-218).  body is the JSON body of the answer.  *)
(***************************************************************************)
\* lines 213-218
key_row(item) ==
    EmitRow(<<item.keyId, item.displayName, item.currentKey, item.createTime>>)

\* line 210 testing another key
HasErrorOtherKey(body) == "errors" \in DOMAIN body

\* line 210
HasError(body) == "error" \in DOMAIN body

\* lines 210-218
key_rows(body) ==
    IF ~HasError(body)
    THEN IF DOMAIN body # {}
         THEN IF "keys" \notin DOMAIN body THEN Raise("KeyError")
              ELSE Sequentially([k \in 1..Len(body.keys) |-> key_row(body.keys[k])])
         ELSE NoRes
    ELSE NoRes

api_keys_report(body) ==
    Sequentially(<<Emit("==== API Keys ===="), key_rows(body)>>)

(***************************************************************************)
(* create_token (lines 184-194): subprocess.run(..., check=True) raises    *)
(* CalledProcessError when the tool exits non-zero; else its stdout.       *)
(***************************************************************************)
create_token(tool) ==
    IF tool.returncode # 0 THEN Raise("CalledProcessError")
    ELSE Res(<<>>, "", tool.stdout)

(***************************************************************************)
(* The answers of the remote services, within the bounds.                  *)
(***************************************************************************)
Tokens == {"ya29.a", "ya29.b"}
TokenTools == {[returncode |-> 1, stdout |-> ""]}
                 \cup {[returncode |-> 0, stdout |-> t] : t \in Tokens}

\* pages of projects().list(): with or without a 'projects' entry
ProjectPageBodies ==
    {Empty} \cup {[projects |-> [k \in 1..Len(ids) |-> Project(ids[k])]] :
                    ids \in SeqsUpTo(ProjectIds, MaxItems)}
ProjectListings == Listings(ProjectPageBodies, MaxPages)

\* pages of zones().list() / regions().list()
NamePageBodies ==
    {[kind |-> "list"]}
      \cup {[kind |-> "list", items |-> [k \in 1..Len(ns) |-> [name |-> ns[k]]]] :
              ns \in SeqsUpTo(Names, MaxItems)}
NameListings == Listings(NamePageBodies, MaxPages)

\* instance records as far as get_external_ip reads them
AccessConfigs ==
    {[type |-> "ONE_TO_ONE_NAT"]}
      \cup {[type |-> "ONE_TO_ONE_NAT", natIP |-> ip] : ip \in {"34.1.1.1", "34.2.2.2"}}
Nics ==
    {[networkIP |-> "10.0.0.2"]}
      \cup {[networkIP |-> "10.0.0.2", accessConfigs |-> acs] :
              acs \in SeqsUpTo(AccessConfigs, MaxNics)}
ExtIpInstances ==
    {[name |-> "vm"]}
      \cup {[name |-> "vm", networkInterfaces |-> nics] : nics \in SeqsUpTo(Nics, MaxNics)}

\* the compute resources of a project
Places == {"eu", "us"}
ComputeInstances ==
    {[zone |-> <<"zones", z>>, name |-> "vm", status |-> "RUNNING",
      machineType |-> <<"machineTypes", "e2-small">>, networkInterfaces |-> <<nic>>] :
        z \in Places,
        nic \in {[networkIP |-> "10.0.0.2"],
                 [networkIP |-> "10.0.0.2", accessConfigs |-> <<>>],
                 [networkIP |-> "10.0.0.2",
                  accessConfigs |-> <<[type |-> "ONE_TO_ONE_NAT", natIP |-> "34.1.1.1"]>>]}}
ComputeDisks ==
    {[zone |-> <<"zones", z>>, name |-> "disk", status |-> "READY", sizeGb |-> "10"] :
        z \in Places}
      \cup {[zone |-> <<"zones", z>>, name |-> "disk", status |-> "READY",
             sizeGb |-> "10", users |-> us] :
              z \in Places,
              us \in {<<<<"instances", "vm">>>>,
                      <<<<"instances", "vm">>, <<"instances", "vm2">>>>}}
ComputeAddresses ==
    {[region |-> <<"regions", r>>, name |-> "ip", status |-> "RESERVED",
      address |-> "34.1.1.1", networkTier |-> "PREMIUM", addressType |-> "EXTERNAL"] :
        r \in Places}
      \cup {[region |-> <<"regions", r>>, name |-> "ip", status |-> "IN_USE",
             address |-> "34.1.1.1", networkTier |-> "PREMIUM",
             addressType |-> "EXTERNAL", users |-> <<<<"instances", "vm">>>>] :
              r \in Places}

NoItemsListing == <<[kind |-> "list"]>>
EmptyListing == <<[kind |-> "list", items |-> <<>>]>>
UsListing == <<[kind |-> "list", items |-> <<[name |-> "us"]>>]>>
TwoPageListing ==
    WithTokens(<<[kind |-> "list", items |-> <<[name |-> "us"]>>],
                 [kind |-> "list", items |-> <<[name |-> "eu"]>>]>>)
EnvListings == {NoItemsListing, EmptyListing, UsListing, TwoPageListing}

ComputeEnvs ==
    {e \in [zones : EnvListings, regions : EnvListings,
            instances : SeqsUpTo(ComputeInstances, MaxResources),
            disks : SeqsUpTo(ComputeDisks, MaxResources),
            addresses : SeqsUpTo(ComputeAddresses, MaxResources)] :
        Len(e.instances) + Len(e.disks) + Len(e.addresses) <= MaxResources}

\* answers of sql.instances().list()
SqlIps == {"10.1.1.1", "34.1.1.1"}
SqlInstances ==
    {[region |-> "us-central1", gceZone |-> "us-central1-a", name |-> "db",
      state |-> "RUNNABLE", databaseVersion |-> "POSTGRES_13",
      settings |-> [tier |-> "db-f1-micro", availabilityType |-> "ZONAL"],
      ipAddresses |-> [k \in 1..Len(ips) |-> [type |-> "PRIMARY", ipAddress |-> ips[k]]]] :
        ips \in SeqsUpTo(SqlIps, MaxIps)}
SqlResults ==
    {[kind |-> "sql#instancesList"]}
      \cup {[kind |-> "sql#instancesList", items |-> its] :
              its \in SeqsUpTo(SqlInstances, MaxItems)}

\* behaviours of CloudRedisClient.list_instances
RedisInstances ==
    {[location_id |-> "us-central1-a", display_name |-> n,
      state |-> [enum |-> "State", name |-> "READY"], redis_version |-> "REDIS_6_X",
      host |-> "10.2.2.2", tier |-> [enum |-> "Tier", name |-> "BASIC"],
      memory_size_gb |-> 1] : n \in {"cache1", "cache2"}}
RedisServices ==
    [raises : BOOLEAN, items : SeqsUpTo(RedisInstances, MaxItems), iterRaises : BOOLEAN]

\* JSON bodies of the apiKeys endpoint
ApiKeys ==
    {[keyId |-> k, displayName |-> "key", currentKey |-> "AIza", createTime |-> "2020"] :
        k \in {"k1", "k2"}}
ApiKeyBodies ==
    {Empty, [error |-> "403"], [nextPageToken |-> "t"]}
      \cup {[keys |-> ks] : ks \in SeqsUpTo(ApiKeys, MaxItems)}
      \cup {[keys |-> ks, nextPageToken |-> "t"] : ks \in SeqsUpTo(ApiKeys, MaxItems)}
      \cup {[error |-> "403", keys |-> ks] : ks \in SeqsUpTo(ApiKeys, MaxItems)}

(***************************************************************************)
(* Calls of single functions: the answers are drawn, the function runs.    *)
(***************************************************************************)
MainIdle ==
    /\ access_token = "" /\ projects = <<>> /\ idx = 0
    /\ output = <<>> /\ calls = <<>> /\ exc = ""

InitUnit ==
    /\ MainIdle
    /\ pc = "call"
    /\ ret = NoRes
    /\ \/ fn = "get_projects" /\ arg \in ProjectListings
       \/ fn = "get_zones" /\ arg \in NameListings
       \/ fn = "get_regions" /\ arg \in NameListings
       \/ fn = "get_external_ip" /\ arg \in ExtIpInstances
       \/ fn = "compute_instance_report" /\ arg \in ComputeEnvs
       \/ fn = "sql_instance_report" /\ arg \in SqlResults
       \/ fn = "redis_instance_report" /\ arg \in RedisServices
       \/ fn = "api_keys_report" /\ arg \in ApiKeyBodies

Returned(r) ==
    /\ ret' = r
    /\ pc' = "returned"
    /\ UNCHANGED <<access_token, projects, idx, output, calls, exc, fn, arg>>

Call_get_projects ==
    /\ pc = "call" /\ fn = "get_projects"
    /\ Returned(get_projects(arg))
Call_get_zones ==
    /\ pc = "call" /\ fn = "get_zones"
    /\ Returned(get_zones(arg))
Call_get_regions ==
    /\ pc = "call" /\ fn = "get_regions"
    /\ Returned(get_regions(arg))
Call_get_external_ip ==
    /\ pc = "call" /\ fn = "get_external_ip"
    /\ Returned(get_external_ip(arg))
Call_compute_instance_report ==
    /\ pc = "call" /\ fn = "compute_instance_report"
    /\ Returned(compute_instance_report(arg))
Call_sql_instance_report ==
    /\ pc = "call" /\ fn = "sql_instance_report"
    /\ Returned(sql_instance_report(arg))
Call_redis_instance_report ==
    /\ pc = "call" /\ fn = "redis_instance_report"
    /\ Returned(redis_instance_report(arg))
Call_api_keys_report ==
    /\ pc = "call" /\ fn = "api_keys_report"
    /\ Returned(api_keys_report(arg))

NextUnit ==
    \/ Call_get_projects
    \/ Call_get_zones
    \/ Call_get_regions
    \/ Call_get_external_ip
    \/ Call_compute_instance_report
    \/ Call_sql_instance_report
    \/ Call_redis_instance_report
    \/ Call_api_keys_report

SpecUnit == InitUnit /\ [][NextUnit]_vars

(***************************************************************************)
(* main (lines 222-236).                                                   *)
(***************************************************************************)
RECURSIVE CountProjects(_)
CountProjects(pages) ==
    IF pages = <<>> THEN 0
    ELSE Len(GetProjectsOf(Head(pages))) + CountProjects(Tail(pages))

\* The answers main() meets in a run: every kind of answer, few of each.
MainProjectListings == {l \in ProjectListings : CountProjects(l) <= MaxProjects}
MainComputeEnvs ==
    {[zones |-> zs, regions |-> UsListing, instances |-> is,
      disks |-> <<>>, addresses |-> <<>>] :
        zs \in {UsListing, NoItemsListing},
        is \in {<<>>, <<[zone |-> <<"zones", "us">>, name |-> "vm",
                          status |-> "RUNNING",
                          machineType |-> <<"machineTypes", "e2-small">>,
                          networkInterfaces |-> <<[networkIP |-> "10.0.0.2"]>>]>>}}
MainSqlInstances ==
    {i \in SqlInstances :
        i.ipAddresses \in {<<[type |-> "PRIMARY", ipAddress |-> "10.1.1.1"]>>,
                           <<[type |-> "PRIMARY", ipAddress |-> "34.1.1.1"],
                             [type |-> "PRIMARY", ipAddress |-> "10.1.1.1"]>>}}
MainSqlResults ==
    {[kind |-> "sql#instancesList"], [kind |-> "sql#instancesList", items |-> <<>>]}
      \cup {[kind |-> "sql#instancesList", items |-> <<i>>] : i \in MainSqlInstances}
MainRedisInstances == {i \in RedisInstances : i.display_name = "cache1"}
MainRedisServices ==
    {[raises |-> TRUE, items |-> <<>>, iterRaises |-> FALSE]}
      \cup {[raises |-> FALSE, items |-> is, iterRaises |-> ir] :
              is \in {<<>>} \cup {<<i>> : i \in MainRedisInstances}, ir \in BOOLEAN}
MainApiKeyBodies ==
    {Empty, [error |-> "403"], [nextPageToken |-> "t"]}
      \cup {[keys |-> <<k>>] : k \in {k \in ApiKeys : k.keyId = "k1"}}

Call(op, project, token, e) ==
    [op |-> op, project |-> project, token |-> token, exc |-> e]

Init ==
    /\ pc = "create_token"
    /\ access_token = ""
    /\ projects = <<>>
    /\ idx = 0
    /\ output = <<>>
    /\ calls = <<>>
    /\ exc = ""
    /\ fn = ""
    /\ arg = <<>>
    /\ ret = NoRes

\* main() with each statement wrapped in try/except: pass
AfterStatementSwallow(e, next) == next

\* where main() goes after a statement that ended with exception e
AfterStatement(e, next) == IF e # "" THEN "crashed" ELSE next

\* main() with the SQL reporter called before the Compute reporter
NextReporterSwapped(p) ==
    CASE p = "banner" -> "sql_instance_report"
      [] p = "sql_instance_report" -> "compute_instance_report"
      [] p = "compute_instance_report" -> "redis_instance_report"
      [] p = "redis_instance_report" -> "api_keys_report"
      [] p = "api_keys_report" -> "for"

\* the reporter main() calls after reporter p of a project (lines 231-234)
NextReporter(p) ==
    CASE p = "banner" -> "compute_instance_report"
      [] p = "compute_instance_report" -> "sql_instance_report"
      [] p = "sql_instance_report" -> "redis_instance_report"
      [] p = "redis_instance_report" -> "api_keys_report"
      [] p = "api_keys_report" -> "for"

\* the token main() hands to api_keys_report (line 234)
TokenArgument == access_token

\* line 224
CreateToken ==
    /\ pc = "create_token"
    /\ \E tool \in TokenTools :
          LET r == create_token(tool)
          IN  /\ access_token' = r.val
              /\ exc' = r.exc
              /\ pc' = AfterStatement(r.exc, "create_service")
              /\ fn' = "create_token" /\ arg' = tool /\ ret' = r
              /\ calls' = Append(calls, Call("create_token", "", "", r.exc))
    /\ UNCHANGED <<projects, idx, output>>

\* line 225
CreateService ==
    /\ pc = "create_service"
    /\ pc' = "get_projects"
    /\ calls' = Append(calls, Call("create_service", "", "", ""))
    /\ UNCHANGED <<access_token, projects, idx, output, exc, fn, arg, ret>>

\* line 227
GetProjects ==
    /\ pc = "get_projects"
    /\ \E pages \in MainProjectListings :
          LET r == get_projects(pages)
          IN  /\ projects' = r.val
              /\ fn' = "get_projects" /\ arg' = pages /\ ret' = r
    /\ pc' = "for"
    /\ calls' = Append(calls, Call("get_projects", "", "", ""))
    /\ UNCHANGED <<access_token, idx, output, exc>>

\* lines 229-230: the next project of the loop, and its banner
ProjectBanner ==
    /\ pc = "for"
    /\ idx < Len(projects)
    /\ idx' = idx + 1
    /\ output' = Append(output, "======================== " \o projects[idx + 1].projectId)
    /\ pc' = NextReporter("banner")
    /\ UNCHANGED <<access_token, projects, calls, exc, fn, arg, ret>>

\* a reporter called for the project of the loop, with what it met and did
Report(name, answer, r, token) ==
    /\ output' = output \o r.out
    /\ exc' = r.exc
    /\ pc' = AfterStatement(r.exc, NextReporter(name))
    /\ calls' = Append(calls, Call(name, projects[idx].projectId, token, r.exc))
    /\ fn' = name /\ arg' = answer /\ ret' = r
    /\ UNCHANGED <<access_token, projects, idx>>

\* line 231
ComputeReport ==
    /\ pc = "compute_instance_report"
    /\ \E env \in MainComputeEnvs :
          Report("compute_instance_report", env, compute_instance_report(env), "")

\* line 232
SqlReport ==
    /\ pc = "sql_instance_report"
    /\ \E result \in MainSqlResults :
          Report("sql_instance_report", result, sql_instance_report(result), "")

\* line 233
RedisReport ==
    /\ pc = "redis_instance_report"
    /\ \E service \in MainRedisServices :
          Report("redis_instance_report", service, redis_instance_report(service), "")

\* line 234
ApiKeysReport ==
    /\ pc = "api_keys_report"
    /\ \E body \in MainApiKeyBodies :
          Report("api_keys_report", body, api_keys_report(body), TokenArgument)

\* line 236, after the last project
PrintEnd ==
    /\ pc = "for"
    /\ idx = Len(projects)
    /\ output' = Append(output, "======================== END")
    /\ pc' = "done"
    /\ UNCHANGED <<access_token, projects, idx, calls, exc, fn, arg, ret>>

Next ==
    \/ CreateToken
    \/ CreateService
    \/ GetProjects
    \/ ProjectBanner
    \/ ComputeReport
    \/ SqlReport
    \/ RedisReport
    \/ ApiKeysReport
    \/ PrintEnd

Spec == Init /\ [][Next]_vars

(***************************************************************************)
(* Properties.                                                             *)
(***************************************************************************)
Range(f) == {f[k] : k \in DOMAIN f}
Count(f, x) == Cardinality({k \in DOMAIN f : f[k] = x})
IsPrefix(a, b) == Len(a) <= Len(b) /\ \A k \in 1..Len(a) : a[k] = b[k]

EndLine == "======================== END"
ProjectLine(id) == "======================== " \o id
ReporterNames ==
    <<"compute_instance_report", "sql_instance_report",
      "redis_instance_report", "api_keys_report">>
ReporterLines ==
    <<"==== Compute Engine ====", "==== SQL Engine ====",
      "==== Memorystore ====", "==== API Keys ====">>
Position(name) == CHOOSE j \in 1..4 : ReporterNames[j] = name

\* C1: for a project whose SQL listing has no 'items', sql_instance_report
\* prints its banner and no row and returns, and the run goes on with the
\* Memorystore reporter of the project (and from there to the next project's
\* banner or the END banner).
C1_EmptySqlListingRunsOn ==
    (fn = "sql_instance_report" /\ "items" \notin DOMAIN arg) =>
        /\ ret = Res(<<"==== SQL Engine ====">>, "", <<>>)
        /\ exc = ""
        /\ pc = "redis_instance_report"

\* a step of the path networkInterfaces[0].accessConfigs[0].natIP is absent
ExternalIpPathAbsent(instance) ==
    \/ "networkInterfaces" \notin DOMAIN instance
    \/ instance.networkInterfaces = <<>>
    \/ "accessConfigs" \notin DOMAIN instance.networkInterfaces[1]
    \/ instance.networkInterfaces[1].accessConfigs = <<>>
    \/ "natIP" \notin DOMAIN instance.networkInterfaces[1].accessConfigs[1]

\* C2: for every instance record in which a step of the path
\* networkInterfaces[0].accessConfigs[0].natIP is absent (a missing key or an
\* empty list), get_external_ip returns "none" and does not raise.
C2_AbsentPathGivesNone ==
    (pc = "returned" /\ fn = "get_external_ip" /\ ExternalIpPathAbsent(arg)) =>
        (ret.exc = "" /\ ret.val = "none")

\* C3: if the cache listing raises, when it is called or while its results
\* are iterated, redis_instance_report prints only the Memorystore banner, no
\* exception escapes it and the run goes on with the API-key reporter.
C3_CacheErrorsAreSwallowed ==
    (fn = "redis_instance_report" /\ (arg.raises \/ arg.iterRaises)) =>
        /\ ret = Res(<<"==== Memorystore ====">>, "", <<>>)
        /\ exc = ""
        /\ pc = "api_keys_report"

\* the key records of a body, and the row of a key record
KeysOf(body) == IF "keys" \in DOMAIN body THEN body.keys ELSE <<>>
KeyLine(k) ==
    k.keyId \o "," \o k.displayName \o "," \o k.currentKey \o "," \o k.createTime

\* C4: for a body with an "error" key api_keys_report prints the banner and
\* no row and no exception escapes; for a body without one it prints the
\* banner and then one row per key record of the body, in order, and nothing
\* else (it returns normally when the body is empty or has a "keys" list).
C4_ErrorBodyPrintsNoRows ==
    (pc = "returned" /\ fn = "api_keys_report") =>
        /\ ret.out # <<>> /\ ret.out[1] = "==== API Keys ===="
        /\ "error" \in DOMAIN arg => (Len(ret.out) = 1 /\ ret.exc = "")
        /\ "error" \notin DOMAIN arg =>
              /\ Len(ret.out) = 1 + Len(KeysOf(arg))
              /\ \A k \in 1..Len(KeysOf(arg)) : ret.out[1 + k] = KeyLine(KeysOf(arg)[k])
              /\ (DOMAIN arg = {} \/ "keys" \in DOMAIN arg) => ret.exc = ""

C4_Witness ==
    /\ pc = "returned" /\ fn = "api_keys_report"
    /\ "error" \in DOMAIN arg /\ "keys" \in DOMAIN arg /\ Len(arg.keys) = 2
    /\ ret.out = <<"==== API Keys ====">>

\* a listing with zero zones (regions)
ZeroNames(pages) ==
    \A k \in 1..Len(pages) : "items" \notin DOMAIN pages[k] \/ pages[k].items = <<>>

\* C5: for a project with zero zones and zero regions compute_instance_report
\* prints exactly the four banners, in order, and returns without raising.
C5_NoZonesOnlyBanners ==
    (pc = "returned" /\ fn = "compute_instance_report"
        /\ ZeroNames(arg.zones) /\ ZeroNames(arg.regions)) =>
        ret = Res(<<"==== Compute Engine ====", "-- Instances --",
                    "-- Disks --", "-- Addresses --">>, "", <<>>)

\* C6: an unhandled error of a reporter (or of create_token) ends the run
\* there: nothing runs after it, so no banner of a later project is printed,
\* the remaining reporters of the project are not called and END is not
\* printed; END is printed at most once, as the last line, and only when
\* every reporter of every project has been called and returned normally.
C6_UnhandledErrorEndsRun ==
    /\ (pc = "crashed") <=> (exc # "")
    /\ pc = "crashed" =>
          /\ ~ENABLED Next
          /\ EndLine \notin Range(output)
          /\ Cardinality({k \in DOMAIN output :
                            output[k] \in {ProjectLine(id) : id \in ProjectIds}}) = idx
          /\ calls[Len(calls)].exc = exc
          /\ idx > 0 => Len(calls) = 3 + 4 * (idx - 1) + Position(fn)
    /\ \A n \in 1..(Len(calls) - 1) : calls[n].exc = ""
    /\ Count(output, EndLine) <= 1
    /\ EndLine \in Range(output) =>
          /\ pc = "done"
          /\ output[Len(output)] = EndLine
          /\ Len(calls) = 3 + 4 * Len(projects)
          /\ \A n \in 1..Len(calls) : calls[n].exc = ""
    /\ pc = "done" => EndLine \in Range(output)

C6_Witness ==
    /\ pc = "crashed"
    /\ Len(projects) = 2 /\ idx = 1
    /\ fn = "sql_instance_report" /\ exc = "IndexError"
    /\ output[Len(output)] = "==== SQL Engine ===="

\* the projects of all pages, in page order and in in-page order
RECURSIVE AllProjects(_)
AllProjects(pages) ==
    IF pages = <<>> THEN <<>>
    ELSE (IF "projects" \in DOMAIN Head(pages) THEN Head(pages).projects ELSE <<>>)
            \o AllProjects(Tail(pages))

\* C7: get_projects returns the concatenation, in page order and in in-page
\* order, of the projects of every page (a page without 'projects' gives
\* nothing and does not end the loop), after as many execute calls as pages.
C7_AllPagesInOrder ==
    (pc = "returned" /\ fn = "get_projects") =>
        /\ ret.val = AllProjects(arg)
        /\ ret.executes = Len(arg)

C7_Witness ==
    /\ pc = "returned" /\ fn = "get_projects"
    /\ Len(arg) = 2
    /\ "projects" \notin DOMAIN arg[1]
    /\ "projects" \in DOMAIN arg[2]
    /\ ret.val = <<Project("p2"), Project("p1")>>

\* the names of all items of all pages
RECURSIVE AllNames(_)
AllNames(pages) ==
    IF pages = <<>> THEN <<>>
    ELSE (IF "items" \in DOMAIN Head(pages)
          THEN [k \in 1..Len(Head(pages).items) |-> Head(pages).items[k].name]
          ELSE <<>>)
            \o AllNames(Tail(pages))

\* C8: get_zones and get_regions return a list in ascending lexicographic
\* order that is a permutation of the names of all items of all pages (they
\* return whenever every page has its 'items').
C8_SortedPermutation ==
    (pc = "returned" /\ fn \in {"get_zones", "get_regions"}) =>
        /\ (\A k \in 1..Len(arg) : "items" \in DOMAIN arg[k]) <=> (ret.exc = "")
        /\ ret.exc = "" =>
              /\ \A i, j \in 1..Len(ret.val) :
                    i < j => ~LexLess(CodePoints[ret.val[j]], CodePoints[ret.val[i]])
              /\ Len(ret.val) = Len(AllNames(arg))
              /\ \A n \in Names : Count(ret.val, n) = Count(AllNames(arg), n)

C8_Witness ==
    /\ pc = "returned" /\ fn = "get_zones"
    /\ Len(arg) = 2
    /\ AllNames(arg) = <<"us2", "us", "eu">>
    /\ ret.val = <<"eu", "us", "us2">>

\* the calls of a complete run over projects ps with token tok
ExpectedCalls(ps, tok) ==
    <<[op |-> "create_token", project |-> "", token |-> ""],
      [op |-> "create_service", project |-> "", token |-> ""],
      [op |-> "get_projects", project |-> "", token |-> ""]>>
      \o [n \in 1..(4 * Len(ps)) |->
            LET k == ((n - 1) \div 4) + 1
                j == ((n - 1) % 4) + 1
            IN  [op |-> ReporterNames[j], project |-> ps[k].projectId,
                 token |-> IF j = 4 THEN tok ELSE ""]]

\* the banners of a complete run over projects ps
ExpectedBanners(ps) ==
    [n \in 1..(5 * Len(ps)) |->
        LET k == ((n - 1) \div 5) + 1
            j == (n - 1) % 5
        IN  IF j = 0 THEN ProjectLine(ps[k].projectId) ELSE ReporterLines[j]]
      \o <<EndLine>>

Banners ==
    SelectSeq(output,
              LAMBDA l : l \in Range(ReporterLines) \cup {EndLine}
                                 \cup {ProjectLine(id) : id \in ProjectIds})

\* C9: the token is obtained once, first; then the projects are enumerated;
\* then for each project, in order, its banner is printed and the Compute,
\* SQL, Cache and API-key reporters are called in that order, the API-key
\* reporter with that token; if the token tool fails nothing is printed and
\* nothing else is called.
C9_FixedOrderOfCalls ==
    /\ IsPrefix([n \in 1..Len(calls) |->
                    [op |-> calls[n].op, project |-> calls[n].project,
                     token |-> calls[n].token]],
                ExpectedCalls(projects, access_token))
    /\ IsPrefix(Banners, ExpectedBanners(projects))
    /\ Len(calls) < 3 => (projects = <<>> /\ output = <<>>)
    /\ Len(calls) >= 1 /\ calls[1].exc = "" => access_token \in Tokens
    /\ Len(calls) >= 1 /\ calls[1].exc # "" =>
          (Len(calls) = 1 /\ output = <<>> /\ ~ENABLED Next)
    /\ \A k \in 1..Len(projects) :
          \* a reporter of project k is called only after its banner
          (Len(calls) > 3 + 4 * (k - 1)) => Len(Banners) >= 5 * (k - 1) + 1
    /\ pc = "done" =>
          /\ Len(calls) = 3 + 4 * Len(projects)
          /\ Banners = ExpectedBanners(projects)

C9_Witness ==
    /\ pc = "done"
    /\ Len(projects) = 2
    /\ projects[1] # projects[2]
    /\ calls[Len(calls)].op = "api_keys_report"
    /\ calls[Len(calls)].token = "ya29.b"

\* the row of an SQL instance record
SqlLine(item) ==
    item.region \o "," \o item.gceZone \o "," \o item.name \o "," \o item.state
      \o "," \o item.databaseVersion \o "," \o item.settings.tier
      \o "," \o item.settings.availabilityType
      \o "," \o item.ipAddresses[1].ipAddress \o "," \o item.ipAddresses[2].ipAddress

\* the first record of items with fewer than two addresses, 0 if none
FirstShort(items) ==
    IF \E k \in 1..Len(items) : Len(items[k].ipAddresses) < 2
    THEN CHOOSE k \in 1..Len(items) :
            /\ Len(items[k].ipAddresses) < 2
            /\ \A m \in 1..(k - 1) : Len(items[m].ipAddresses) >= 2
    ELSE 0

\* C10: sql_instance_report prints, for each record with two addresses, one
\* row that ends with the address of entry 0 and then that of entry 1; at the
\* first record with fewer than two it raises, with the rows of the records
\* before it printed and none for that record or after it.
C10_TwoAddressesInOrder ==
    (pc = "returned" /\ fn = "sql_instance_report" /\ "items" \in DOMAIN arg) =>
        LET short == FirstShort(arg.items)
            rows == IF short = 0 THEN Len(arg.items) ELSE short - 1
        IN  /\ ret.out[1] = "==== SQL Engine ===="
            /\ Len(ret.out) = 1 + rows
            /\ \A k \in 1..rows : ret.out[1 + k] = SqlLine(arg.items[k])
            /\ (short = 0) <=> (ret.exc = "")

C10_Witness ==
    /\ pc = "returned" /\ fn = "sql_instance_report"
    /\ "items" \in DOMAIN arg /\ Len(arg.items) = 2
    /\ Len(arg.items[1].ipAddresses) = 2
    /\ arg.items[1].ipAddresses[1].ipAddress # arg.items[1].ipAddresses[2].ipAddress
    /\ Len(arg.items[2].ipAddresses) = 1
    /\ ret.exc = "IndexError" /\ Len(ret.out) = 2

====
